---- MODULE Spec2Model ----
(***************************************************************************)
(* The Repackager (src/src/index.js): the worker and its ZIP core.         *)
(*   parseZipTOC          central directory -> table of contents (TOC)     *)
(*   shouldFlattenFromTOC single top-level folder and no root files?       *)
(*   hasRootMarkerInTOC   is ".no-sublime-package" at the (stripped) root? *)
(*   rebuildZipFlatten    rewrite headers, copy compressed bytes as they   *)
(*                        are                                              *)
(* The state machine is one run of the fetch handler (lines 5-99) after     *)
(* another: URL validation, cache lookup, HEAD pre-check, GET, readLimited *)
(* chunk by chunk, then the four functions above on the fetched buffer,    *)
(* the answer and cache.put.                                               *)
(*                                                                         *)
(* A Uint8Array is modelled as [head, zeros]: the bytes of head followed   *)
(* by `zeros` bytes of value 0.  Offsets are 0-based as in the source.     *)
(* A JavaScript string is the sequence of its UTF-16 code units.           *)
(***************************************************************************)
EXTENDS Integers, Sequences, FiniteSets, TLC

VARIABLES bytes, pc, toc, flatten, rootMarkerPresent, rebuilt, env,
          remoteUrl, cache, calls, head, res, reader, chunks, received,
          limited, resp

vars ==
  <<bytes, pc, toc, flatten, rootMarkerPresent, rebuilt, env, remoteUrl, cache,
    calls, head, res, reader, chunks, received, limited, resp>>

(* ------------------------------ bounds --------------------------------- *)

\* Longest archive (in entries) that Init builds from EntryPool.
MaxEntries == 2

(* ----------------------- constants of the source ----------------------- *)

SIG_EOCD == 101010256   \* 0x06054b50
SIG_CEN == 33639248     \* 0x02014b50
SIG_LOC == 67324752     \* 0x04034b50

EOCD_SIZE == 22         \* minimum (comment-free) EOCD record
CEN_SIZE == 46          \* fixed part of a central-directory record
LOC_SIZE == 30          \* fixed part of a local file header

\* Math.min(bytes.byteLength, 0xFFFF + 22 + 1024)
MaxScanCap == 65535 + 22 + 1024

VERSION_NEEDED == 20
VERSION_MADE_BY == 788  \* 0x0314

SLASH == 47             \* "/"
REPLACEMENT == 65533    \* U+FFFD
BOM == 65279            \* U+FEFF

\* ".no-sublime-package"
MARKER ==
  <<46, 110, 111, 45, 115, 117, 98, 108, 105, 109, 101, 45,
    112, 97, 99, 107, 97, 103, 101>>

(* ------------------------------ helpers -------------------------------- *)

Min(a, b) == IF a <= b THEN a ELSE b
Max(a, b) == IF a >= b THEN a ELSE b
SetMax(S) == CHOOSE x \in S : \A y \in S : y <= x

(* ------------------------ Uint8Array / DataView ------------------------ *)

Buf(s) == [head |-> s, zeros |-> 0]
BufLen(b) == Len(b.head) + b.zeros
ByteAt(b, i) == IF i < Len(b.head) THEN b.head[i + 1] ELSE 0

\* DataView getters throw a RangeError unless off + n <= byteLength.
InRange(b, off, n) == off >= 0 /\ off + n <= BufLen(b)

getUint16(b, off) == ByteAt(b, off) + 256 * ByteAt(b, off + 1)
getUint32(b, off) ==
  ByteAt(b, off) + 256 * ByteAt(b, off + 1)
    + 65536 * ByteAt(b, off + 2) + 16777216 * ByteAt(b, off + 3)

\* view.getUint32(off, true) === sig, compared byte by byte (the little-endian
\* encoding is one-to-one), so that any byte value may stand at off + 3.
hasSig(b, off, sig) ==
  <<ByteAt(b, off), ByteAt(b, off + 1), ByteAt(b, off + 2), ByteAt(b, off + 3)>>
    = <<sig % 256, (sig \div 256) % 256, (sig \div 65536) % 256,
        (sig \div 16777216) % 256>>

\* Uint8Array.prototype.subarray(begin, end): both ends are clamped to the
\* length; it never throws.
subarray(b, begin, end) ==
  LET lo == Min(begin, BufLen(b))
      hi == Min(end, BufLen(b))
  IN IF hi <= lo THEN <<>> ELSE [k \in 1..(hi - lo) |-> ByteAt(b, lo + k - 1)]

\* DataView setters, little-endian: the low 16 / 32 bits of v.
setUint16(v) == <<v % 256, (v \div 256) % 256>>
setUint32(v) ==
  <<v % 256, (v \div 256) % 256, (v \div 65536) % 256, (v \div 16777216) % 256>>

(* --------------------- TextDecoder / TextEncoder ----------------------- *)

\* One code point as UTF-16 code units.
CodeUnits(cp) ==
  IF cp < 65536 THEN <<cp>>
  ELSE <<55296 + ((cp - 65536) \div 1024), 56320 + ((cp - 65536) % 1024)>>

\* The WHATWG UTF-8 decoder (error mode "replacement"): s is the byte
\* sequence, i the next index, cp/seen/needed/lower/upper its state.
RECURSIVE Utf8Run(_, _, _, _, _, _, _)
Utf8Run(s, i, cp, seen, needed, lower, upper) ==
  IF i > Len(s) THEN (IF needed # 0 THEN <<REPLACEMENT>> ELSE <<>>)
  ELSE
    LET b == s[i] IN
    IF needed = 0 THEN
      IF b <= 127 THEN <<b>> \o Utf8Run(s, i + 1, 0, 0, 0, 128, 191)
      ELSE IF b >= 194 /\ b <= 223 THEN
        Utf8Run(s, i + 1, b % 32, 0, 1, 128, 191)
      ELSE IF b >= 224 /\ b <= 239 THEN
        Utf8Run(s, i + 1, b % 16, 0, 2,
                IF b = 224 THEN 160 ELSE 128, IF b = 237 THEN 159 ELSE 191)
      ELSE IF b >= 240 /\ b <= 244 THEN
        Utf8Run(s, i + 1, b % 8, 0, 3,
                IF b = 240 THEN 144 ELSE 128, IF b = 244 THEN 143 ELSE 191)
      ELSE <<REPLACEMENT>> \o Utf8Run(s, i + 1, 0, 0, 0, 128, 191)
    ELSE IF b < lower \/ b > upper THEN
      \* the byte is put back and read again in the initial state
      <<REPLACEMENT>> \o Utf8Run(s, i, 0, 0, 0, 128, 191)
    ELSE
      LET cp2 == cp * 64 + (b % 64) IN
      IF seen + 1 # needed THEN Utf8Run(s, i + 1, cp2, seen + 1, needed, 128, 191)
      ELSE CodeUnits(cp2) \o Utf8Run(s, i + 1, 0, 0, 0, 128, 191)

\* new TextDecoder("utf-8").decode(bytes): not fatal, a leading BOM is dropped.
decode(s) ==
  LET u == Utf8Run(s, 1, 0, 0, 0, 128, 191)
  IN IF Len(u) > 0 /\ u[1] = BOM THEN Tail(u) ELSE u

Utf8Of(cp) ==
  IF cp < 128 THEN <<cp>>
  ELSE IF cp < 2048 THEN <<192 + (cp \div 64), 128 + (cp % 64)>>
  ELSE IF cp < 65536 THEN
    <<224 + (cp \div 4096), 128 + ((cp \div 64) % 64), 128 + (cp % 64)>>
  ELSE
    <<240 + (cp \div 262144), 128 + ((cp \div 4096) % 64),
      128 + ((cp \div 64) % 64), 128 + (cp % 64)>>

IsHigh(u) == u >= 55296 /\ u <= 56319
IsLow(u) == u >= 56320 /\ u <= 57343

\* new TextEncoder().encode(str): surrogate pairs are combined, a lone
\* surrogate becomes U+FFFD.
RECURSIVE encodeFrom(_, _)
encodeFrom(str, i) ==
  IF i > Len(str) THEN <<>>
  ELSE IF IsHigh(str[i]) /\ i < Len(str) /\ IsLow(str[i + 1]) THEN
    Utf8Of(65536 + (str[i] - 55296) * 1024 + (str[i + 1] - 56320))
      \o encodeFrom(str, i + 2)
  ELSE IF IsHigh(str[i]) \/ IsLow(str[i]) THEN
    Utf8Of(REPLACEMENT) \o encodeFrom(str, i + 1)
  ELSE Utf8Of(str[i]) \o encodeFrom(str, i + 1)

encode(str) == encodeFrom(str, 1)

(* --------------------------- String methods ---------------------------- *)

startsWith(s, p) == Len(s) >= Len(p) /\ SubSeq(s, 1, Len(p)) = p
endsWithSlash(s) == Len(s) > 0 /\ s[Len(s)] = SLASH
slice(s, n) == SubSeq(s, n + 1, Len(s))

\* str.replace(/^\/+/, "")
RECURSIVE stripLeadingSlashes(_)
stripLeadingSlashes(s) ==
  IF Len(s) > 0 /\ s[1] = SLASH THEN stripLeadingSlashes(Tail(s)) ELSE s

\* str.split("/"): every segment, empty ones included ("" splits to [""]).
RECURSIVE splitFrom(_, _, _)
splitFrom(s, i, cur) ==
  IF i > Len(s) THEN <<cur>>
  ELSE IF s[i] = SLASH THEN <<cur>> \o splitFrom(s, i + 1, <<>>)
  ELSE splitFrom(s, i + 1, Append(cur, s[i]))

split(s) == splitFrom(s, 1, <<>>)

\* e.name.replace(/^\/+/, "").split("/").filter(Boolean)
pathParts(name) ==
  SelectSeq(split(stripLeadingSlashes(name)), LAMBDA seg : seg # <<>>)

(* ---------------------------- parseZipTOC ------------------------------ *)

\* What a call returns or throws.  err is "" on success, else the thrown
\* error: the message of an Error, or "RangeError" for the RangeError of a
\* DataView getter reading outside the buffer.
Thrown(e) ==
  [ok |-> FALSE, err |-> e, entries |-> <<>>, tops |-> {}, hasRootFiles |-> FALSE]

\* A variant that scans the whole buffer instead of the last maxScan bytes.
findEOCDUnbounded(b) ==
  LET hits == {i \in 0..(BufLen(b) - EOCD_SIZE) : hasSig(b, i, SIG_EOCD)}
  IN IF hits = {} THEN -1 ELSE SetMax(hits)

\* The backward scan for the EOCD signature: the highest i with
\* byteLength - maxScan <= i <= byteLength - 22 and a signature at i, or -1.
findEOCD(b) ==
  LET n == BufLen(b)
      maxScan == Min(n, MaxScanCap)
      hits == {i \in (n - maxScan)..(n - EOCD_SIZE) : hasSig(b, i, SIG_EOCD)}
  IN IF hits = {} THEN -1 ELSE SetMax(hits)

\* One central-directory record at p and the local header it points to.
readEntry(b, p) ==
  LET fnameLen == getUint16(b, p + 28)
      name == decode(subarray(b, p + CEN_SIZE, p + CEN_SIZE + fnameLen))
      lp == getUint32(b, p + 42)
  IN [name |-> name,
      isDir |-> endsWithSlash(name),
      flags |-> getUint16(b, p + 8),
      method |-> getUint16(b, p + 10),
      modTime |-> getUint16(b, p + 12),
      modDate |-> getUint16(b, p + 14),
      crc32 |-> getUint32(b, p + 16),
      compSize |-> getUint32(b, p + 20),
      uncompSize |-> getUint32(b, p + 24),
      locRelOffset |-> lp,
      dataStart |-> lp + LOC_SIZE + getUint16(b, lp + 26) + getUint16(b, lp + 28)]

\* The loop over the central directory: i records read so far, p the cursor.
RECURSIVE walkCentralDirectory(_, _, _, _, _)
walkCentralDirectory(b, totalEntries, i, p, entries) ==
  IF i >= totalEntries THEN [ok |-> TRUE, err |-> "", entries |-> entries]
  ELSE IF ~InRange(b, p, 4) THEN [ok |-> FALSE, err |-> "RangeError", entries |-> <<>>]
  ELSE IF ~hasSig(b, p, SIG_CEN) THEN
    [ok |-> TRUE, err |-> "", entries |-> entries]                  \* break
  ELSE IF ~InRange(b, p, CEN_SIZE) THEN
    [ok |-> FALSE, err |-> "RangeError", entries |-> <<>>]
  ELSE
    LET lp == getUint32(b, p + 42) IN
    IF ~InRange(b, lp, 4) THEN [ok |-> FALSE, err |-> "RangeError", entries |-> <<>>]
    ELSE IF ~hasSig(b, lp, SIG_LOC) THEN
      [ok |-> FALSE, err |-> "LOC missing", entries |-> <<>>]
    ELSE IF ~InRange(b, lp, LOC_SIZE) THEN
      [ok |-> FALSE, err |-> "RangeError", entries |-> <<>>]
    ELSE
      walkCentralDirectory(
        b, totalEntries, i + 1,
        p + CEN_SIZE + getUint16(b, p + 28) + getUint16(b, p + 30)
          + getUint16(b, p + 32),
        Append(entries, readEntry(b, p)))

\* A variant that takes top-level names from the non-directory entries only.
topsOfFilesOnly(entries) ==
  {pathParts(entries[k].name)[1] :
     k \in {j \in 1..Len(entries) :
              ~entries[j].isDir /\ pathParts(entries[j].name) # <<>>}}

\* tops: the first path segment of every entry that has one.
topsOf(entries) ==
  {pathParts(entries[k].name)[1] :
     k \in {j \in 1..Len(entries) : pathParts(entries[j].name) # <<>>}}

\* hasRootFiles: some non-directory entry has exactly one path segment.
hasRootFilesOf(entries) ==
  \E k \in 1..Len(entries) :
    ~entries[k].isDir /\ Len(pathParts(entries[k].name)) = 1

parseZipTOC(b) ==
  LET eocdOff == findEOCD(b) IN
  IF eocdOff < 0 THEN Thrown("EOCD not found")
  ELSE
    LET totalEntries == getUint16(b, eocdOff + 10)
        cdOffset == getUint32(b, eocdOff + 16)
        w == walkCentralDirectory(b, totalEntries, 0, cdOffset, <<>>)
    IN IF ~w.ok THEN Thrown(w.err)
       ELSE [ok |-> TRUE, err |-> "", entries |-> w.entries,
             tops |-> topsOf(w.entries),
             hasRootFiles |-> hasRootFilesOf(w.entries)]

(* ------------- shouldFlattenFromTOC, hasRootMarkerInTOC ---------------- *)

\* false, or { prefix }: flat tells which.
NoFlatten == [flat |-> FALSE, prefix |-> <<>>]

\* A variant that forgets the root-file test.
shouldFlattenIgnoringRootFiles(t) ==
  IF Cardinality(t.tops) # 1 THEN NoFlatten
  ELSE [flat |-> TRUE, prefix |-> Append(CHOOSE root \in t.tops : TRUE, SLASH)]

shouldFlattenFromTOC(t) ==
  IF t.hasRootFiles THEN NoFlatten
  ELSE IF Cardinality(t.tops) # 1 THEN NoFlatten
  ELSE [flat |-> TRUE, prefix |-> Append(CHOOSE root \in t.tops : TRUE, SLASH)]

\* A variant that matches the marker at any depth below the prefix.
hasRootMarkerAnyDepth(t, stripPrefix) ==
  \E k \in 1..Len(t.entries) :
    LET n == t.entries[k].name IN
    /\ ~t.entries[k].isDir
    /\ startsWith(n, stripPrefix)
    /\ Len(n) >= Len(MARKER)
    /\ SubSeq(n, Len(n) - Len(MARKER) + 1, Len(n)) = MARKER

hasRootMarkerInTOC(t, stripPrefix) ==
  LET want == IF stripPrefix # <<>> THEN stripPrefix \o MARKER ELSE MARKER
  IN \E k \in 1..Len(t.entries) :
       ~t.entries[k].isDir /\ t.entries[k].name = want

(* -------------------------- rebuildZipFlatten --------------------------- *)

Bit(v, k) == (v \div (2 ^ k)) % 2

\* A variant that sets the UTF-8 bit and keeps the data-descriptor bit.
flagsKeepDescriptor(f) == f + (IF Bit(f, 11) = 0 THEN 2048 ELSE 0)

\* (e.flags | (1 << 11)) & ~(1 << 3)
flagsFor(f) ==
  f + (IF Bit(f, 11) = 0 THEN 2048 ELSE 0) - (IF Bit(f, 3) = 1 THEN 8 ELSE 0)

\* A variant that keeps the directory entries below the prefix.
fileEntriesWithDirs(t, stripPrefix) ==
  LET keep == SelectSeq(t.entries,
                LAMBDA e : slice(e.name, Len(stripPrefix)) # <<>>)
  IN [k \in 1..Len(keep) |->
        [e |-> keep[k], newName |-> slice(keep[k].name, Len(stripPrefix))]]

\* The first loop: the non-directory entries, each with its newName; an
\* entry that has nothing left after the prefix is skipped.
fileEntriesOf(t, stripPrefix) ==
  LET keep == SelectSeq(t.entries,
                LAMBDA e : ~e.isDir /\ slice(e.name, Len(stripPrefix)) # <<>>)
  IN [k \in 1..Len(keep) |->
        [e |-> keep[k], newName |-> slice(keep[k].name, Len(stripPrefix))]]

\* ... which throws at a non-directory entry that does not start with the
\* prefix.
outsidePrefix(t, stripPrefix) ==
  \E k \in 1..Len(t.entries) :
    ~t.entries[k].isDir /\ ~startsWith(t.entries[k].name, stripPrefix)

locHeaderOf(e, nameBytes, flags) ==
  setUint32(SIG_LOC) \o setUint16(VERSION_NEEDED) \o setUint16(flags)
    \o setUint16(e.method) \o setUint16(e.modTime) \o setUint16(e.modDate)
    \o setUint32(e.crc32) \o setUint32(e.compSize) \o setUint32(e.uncompSize)
    \o setUint16(Len(nameBytes)) \o setUint16(0) \o nameBytes

cenOf(e, nameBytes, flags, localHeaderOffset) ==
  setUint32(SIG_CEN) \o setUint16(VERSION_MADE_BY) \o setUint16(VERSION_NEEDED)
    \o setUint16(flags) \o setUint16(e.method) \o setUint16(e.modTime)
    \o setUint16(e.modDate) \o setUint32(e.crc32) \o setUint32(e.compSize)
    \o setUint32(e.uncompSize) \o setUint16(Len(nameBytes)) \o setUint16(0)
    \o setUint16(0) \o setUint16(0) \o setUint16(0) \o setUint32(0)
    \o setUint32(localHeaderOffset) \o nameBytes

eocdOf(count, cdSize, cdStart) ==
  setUint32(SIG_EOCD) \o setUint16(0) \o setUint16(0) \o setUint16(count)
    \o setUint16(count) \o setUint32(cdSize) \o setUint32(cdStart) \o setUint16(0)

\* A variant that records the offset after the header instead of before it.
localHeaderOffsetStale(offset, locHeader) == offset

\* Where the local header of file entry k is written: the running offset
\* before it, i.e. offset - locHeader.length once the header is counted.
localHeaderOffsetAfter(offset, locHeader) == offset - Len(locHeader)

\* The second loop: parts is what has been pushed, offset its length,
\* locals the record kept for the central directory.
RECURSIVE emitLocals(_, _, _, _, _, _)
emitLocals(b, fileEntries, k, parts, offset, locals) ==
  IF k > Len(fileEntries) THEN [parts |-> parts, offset |-> offset, locals |-> locals]
  ELSE
    LET e == fileEntries[k].e
        nameBytes == encode(fileEntries[k].newName)
        flags == flagsFor(e.flags)
        locHeader == locHeaderOf(e, nameBytes, flags)
        data == subarray(b, e.dataStart, e.dataStart + e.compSize)
        offset1 == offset + Len(locHeader)
    IN emitLocals(b, fileEntries, k + 1,
                  parts \o locHeader \o data,
                  offset1 + Len(data),
                  Append(locals,
                         [e |-> e, nameBytes |-> nameBytes, flags |-> flags,
                          localHeaderOffset |->
                            localHeaderOffsetAfter(offset1, locHeader)]))

\* The third loop: one central-directory record per local.
RECURSIVE emitCentral(_, _)
emitCentral(locals, k) ==
  IF k > Len(locals) THEN <<>>
  ELSE cenOf(locals[k].e, locals[k].nameBytes, locals[k].flags,
             locals[k].localHeaderOffset)
         \o emitCentral(locals, k + 1)

NotRebuilt == [ok |-> FALSE, err |-> "", out |-> <<>>]

rebuildZipFlatten(b, t, stripPrefix) ==
  IF outsidePrefix(t, stripPrefix) THEN
    [ok |-> FALSE, err |-> "entry outside prefix", out |-> <<>>]
  ELSE
    LET l == emitLocals(b, fileEntriesOf(t, stripPrefix), 1, <<>>, 0, <<>>)
        cdStart == l.offset
        cen == emitCentral(l.locals, 1)
        cdSize == (cdStart + Len(cen)) - cdStart
    IN [ok |-> TRUE, err |-> "",
        out |-> l.parts \o cen \o eocdOf(Len(l.locals), cdSize, cdStart)]

(* ------------------------ the buffers handed in ------------------------ *)

\* An archive member as a ZIP writer sees it.
Member(name, flags, method, crc, data, uncompSize, lextra, cextra, comment) ==
  [name |-> name, flags |-> flags, method |-> method, crc |-> crc,
   data |-> data, uncompSize |-> uncompSize, lextra |-> lextra,
   cextra |-> cextra, comment |-> comment]

P_SLASH == <<112, 47>>                                  \* "p/"

EntryPool ==
  { Member(P_SLASH, 0, 0, 0, <<>>, 0, <<>>, <<>>, <<>>),                 \* p/
    Member(<<112, 47, 97>>, 0, 0, 258, <<1, 2>>, 2, <<>>, <<>>, <<>>),   \* p/a
    Member(<<112, 47, 115, 47, 98>>, 8, 8, 77, <<3>>, 5,
           <<7, 7>>, <<9>>, <<33>>),                                     \* p/s/b
    Member(<<113, 47, 99>>, 2056, 8, 1029, <<4, 5, 6>>, 9,
           <<>>, <<8, 8>>, <<>>),                                        \* q/c
    Member(<<114>>, 2048, 0, 11, <<10>>, 1, <<>>, <<>>, <<>>),           \* r
    Member(P_SLASH \o MARKER, 0, 0, 0, <<>>, 0, <<>>, <<>>, <<>>),
    Member(MARKER, 0, 0, 0, <<>>, 0, <<>>, <<>>, <<>>),
    Member(P_SLASH \o MARKER \o <<47>>, 0, 0, 0, <<>>, 0, <<>>, <<>>, <<>>),
    Member(MARKER \o <<47>>, 0, 0, 0, <<>>, 0, <<>>, <<>>, <<>>),
    Member(P_SLASH \o <<120, 47>> \o MARKER, 0, 0, 0, <<>>, 0,
           <<>>, <<>>, <<>>),                                            \* p/x/<marker>
    Member(<<47, 112, 47, 97>>, 0, 0, 12, <<11>>, 1, <<>>, <<>>, <<>>),  \* /p/a
    Member(<<>>, 0, 0, 13, <<12>>, 1, <<>>, <<>>, <<>>),                 \* ""
    Member(<<112, 47, 255>>, 0, 0, 14, <<13>>, 1, <<>>, <<>>, <<>>) }    \* p/\xFF

\* Every member carries the same DOS time 25000 and date 23000.
memberLoc(m) ==
  setUint32(SIG_LOC) \o setUint16(VERSION_NEEDED) \o setUint16(m.flags)
    \o setUint16(m.method) \o setUint16(25000) \o setUint16(23000)
    \o setUint32(m.crc) \o setUint32(Len(m.data)) \o setUint32(m.uncompSize)
    \o setUint16(Len(m.name)) \o setUint16(Len(m.lextra))
    \o m.name \o m.lextra \o m.data

memberCen(m, off) ==
  setUint32(SIG_CEN) \o setUint16(VERSION_MADE_BY) \o setUint16(VERSION_NEEDED)
    \o setUint16(m.flags) \o setUint16(m.method) \o setUint16(25000)
    \o setUint16(23000) \o setUint32(m.crc) \o setUint32(Len(m.data))
    \o setUint32(m.uncompSize) \o setUint16(Len(m.name))
    \o setUint16(Len(m.cextra)) \o setUint16(Len(m.comment)) \o setUint16(0)
    \o setUint16(0) \o setUint32(0) \o setUint32(off)
    \o m.name \o m.cextra \o m.comment

RECURSIVE zipLocals(_, _)
zipLocals(ms, k) ==
  IF k > Len(ms) THEN <<>> ELSE memberLoc(ms[k]) \o zipLocals(ms, k + 1)

RECURSIVE zipCentral(_, _, _)
zipCentral(ms, k, off) ==
  IF k > Len(ms) THEN <<>>
  ELSE memberCen(ms[k], off) \o zipCentral(ms, k + 1, off + Len(memberLoc(ms[k])))

\* A well-formed single-disk archive of the members ms.
zipOf(ms) ==
  LET loc == zipLocals(ms, 1)
      cen == zipCentral(ms, 1, 0)
  IN loc \o cen \o eocdOf(Len(ms), Len(cen), Len(loc))

Archives == UNION {[1..n -> EntryPool] : n \in 0..MaxEntries}

\* The archives that are damaged below: one file in a folder; a folder
\* entry and a nested file with extra fields and a comment.
DamagedBases ==
  { <<Member(<<112, 47, 97>>, 0, 0, 258, <<1, 2>>, 2, <<>>, <<>>, <<>>)>>,
    <<Member(P_SLASH, 0, 0, 0, <<>>, 0, <<>>, <<>>, <<>>),
      Member(<<112, 47, 115, 47, 98>>, 8, 8, 77, <<3>>, 5, <<7, 7>>, <<9>>, <<33>>)>> }

PokeValues == {0, 1, 63}

poke(s, off, v) == [s EXCEPT ![off + 1] = v]

\* Lengths of trailing zero bytes around the two scan limits: the ZIP
\* comment ceiling 0xFFFF + 1, and the scan window of findEOCD.
PadLens ==
  {1, 65535, 65536, 65537, MaxScanCap - EOCD_SIZE, MaxScanCap - EOCD_SIZE + 1}

WellFormed == {Buf(zipOf(ms)) : ms \in Archives}

Poked ==
  UNION {{Buf(poke(zipOf(ms), off, v)) :
            off \in 0..(Len(zipOf(ms)) - 1), v \in PokeValues} : ms \in DamagedBases}

Truncated ==
  UNION {{Buf(SubSeq(zipOf(ms), 1, n)) : n \in 0..(Len(zipOf(ms)) - 1)} :
           ms \in DamagedBases}

Padded == {[head |-> zipOf(ms), zeros |-> n] : ms \in DamagedBases, n \in PadLens}

Inputs == WellFormed \cup Poked \cup Truncated \cup Padded

(* ------------------------- URLs, hosts and env ------------------------- *)

COMMA == 44
DOT == 46
COLON == 58

\* The code units String.prototype.trim removes.
WHITESPACE ==
  {9, 10, 11, 12, 13, 32, 160, 5760, 8232, 8233, 8239, 8287, 12288, BOM}
    \cup (8192..8202)

\* str.split(sep) for a one-character separator.
RECURSIVE splitOnFrom(_, _, _, _)
splitOnFrom(s, sep, i, cur) ==
  IF i > Len(s) THEN <<cur>>
  ELSE IF s[i] = sep THEN <<cur>> \o splitOnFrom(s, sep, i + 1, <<>>)
  ELSE splitOnFrom(s, sep, i + 1, Append(cur, s[i]))

splitOn(s, sep) == splitOnFrom(s, sep, 1, <<>>)

RECURSIVE trimStart(_)
trimStart(s) ==
  IF Len(s) > 0 /\ s[1] \in WHITESPACE THEN trimStart(Tail(s)) ELSE s

RECURSIVE trimEnd(_)
trimEnd(s) ==
  IF Len(s) > 0 /\ s[Len(s)] \in WHITESPACE
  THEN trimEnd(SubSeq(s, 1, Len(s) - 1)) ELSE s

trim(s) == trimEnd(trimStart(s))

\* toLowerCase on the letters A-Z (host names here are ASCII).
toLowerCase(s) ==
  [i \in 1..Len(s) |-> IF s[i] \in 65..90 THEN s[i] + 32 ELSE s[i]]

IsDigit(c) == c \in 48..57
IsHexOrColon(c) == c \in (48..57) \cup (97..102) \cup (65..70) \cup {COLON}

\* /^\d{1,3}(?:\.\d{1,3}){3}$/ or /^\[?[0-9a-fA-F:]+\]?$/
isIpLiteral(host) ==
  LET quads == splitOn(host, DOT)
      a == IF Len(host) > 0 /\ host[1] = 91 THEN 1 ELSE 0
      b == IF Len(host) > a /\ host[Len(host)] = 93 THEN 1 ELSE 0
      mid == SubSeq(host, a + 1, Len(host) - b)
  IN \/ /\ Len(quads) = 4
        /\ \A q \in 1..4 :
             /\ Len(quads[q]) \in 1..3
             /\ \A i \in 1..Len(quads[q]) : IsDigit(quads[q][i])
     \/ /\ Len(mid) > 0
        /\ \A i \in 1..Len(mid) : IsHexOrColon(mid[i])

LOCALHOST == <<108, 111, 99, 97, 108, 104, 111, 115, 116>>

\* "codeload.github.com,bitbucket.org,codelab.org,gitlab.com"
DEFAULT_ALLOW_HOSTS ==
  <<99, 111, 100, 101, 108, 111, 97, 100, 46, 103, 105, 116, 104, 117, 98,
    46, 99, 111, 109, 44, 98, 105, 116, 98, 117, 99, 107, 101, 116, 46,
    111, 114, 103, 44, 99, 111, 100, 101, 108, 97, 98, 46, 111, 114, 103,
    44, 103, 105, 116, 108, 97, 98, 46, 99, 111, 109>>

DEFAULT_MAX_ZIP_BYTES == 25000000
DEFAULT_CPU_REPACKAGE_BYTES == 12000000

\* env.ALLOW_HOSTS is a string, <<>> when unset; env.MAX_ZIP_BYTES and
\* env.CPU_REPACKAGE_BYTES are numbers, 0 when unset.
allowHostsOf(e) ==
  LET list == IF e.ALLOW_HOSTS # <<>> THEN e.ALLOW_HOSTS ELSE DEFAULT_ALLOW_HOSTS
      items == splitOn(list, COMMA)
      hosts == [i \in 1..Len(items) |-> toLowerCase(trim(items[i]))]
  IN SelectSeq(hosts, LAMBDA h : h # <<>>)

includes(list, x) == \E i \in 1..Len(list) : list[i] = x

softLimitOf(e) ==
  IF e.MAX_ZIP_BYTES # 0 THEN e.MAX_ZIP_BYTES ELSE DEFAULT_MAX_ZIP_BYTES

cpuLimitOf(e) ==
  IF e.CPU_REPACKAGE_BYTES # 0 THEN e.CPU_REPACKAGE_BYTES
  ELSE DEFAULT_CPU_REPACKAGE_BYTES

\* The limits of the deployment with small caps.
SmallZipBytes == 150
SmallCpuBytes == 120

\* " CodeLoad.GitHub.com ,,bitbucket.org"
SMALL_ALLOW_HOSTS ==
  <<32, 67, 111, 100, 101, 76, 111, 97, 100, 46, 71, 105, 116, 72, 117, 98,
    46, 99, 111, 109, 32, 44, 44, 98, 105, 116, 98, 117, 99, 107, 101, 116,
    46, 111, 114, 103>>

EnvPool ==
  { [ALLOW_HOSTS |-> <<>>, MAX_ZIP_BYTES |-> 0, CPU_REPACKAGE_BYTES |-> 0],
    [ALLOW_HOSTS |-> SMALL_ALLOW_HOSTS, MAX_ZIP_BYTES |-> SmallZipBytes,
     CPU_REPACKAGE_BYTES |-> SmallCpuBytes] }

\* A URL string with what new URL() makes of it: whether it parses, its
\* protocol, whether it has a username or password, and its hostname (as
\* the parser serialises it, lower-case).  ipLiteral records whether the
\* host is an IPv4 or IPv6 address.  href "" is the missing or empty string.
Url(href, parses, protocol, credentials, hostname, ipLiteral) ==
  [href |-> href, parses |-> parses, protocol |-> protocol,
   credentials |-> credentials, hostname |-> hostname, ipLiteral |-> ipLiteral]

NoUrl == Url("", FALSE, "", FALSE, <<>>, FALSE)

HOST_CODELOAD == 
  <<99, 111, 100, 101, 108, 111, 97, 100, 46, 103, 105, 116, 104, 117, 98,
    46, 99, 111, 109>>
HOST_BITBUCKET == 
  <<98, 105, 116, 98, 117, 99, 107, 101, 116, 46, 111, 114, 103>>
HOST_EXAMPLE == <<101, 120, 97, 109, 112, 108, 101, 46, 99, 111, 109>>

U_OK ==
  Url("https://codeload.github.com/o/r/zip/refs/tags/1.0", TRUE, "https:",
      FALSE, HOST_CODELOAD, FALSE)

U_BITBUCKET ==
  Url("https://bitbucket.org/o/r/get/1.0.zip", TRUE, "https:", FALSE,
      HOST_BITBUCKET, FALSE)

U_DENIED ==
  Url("https://example.com/r.zip", TRUE, "https:", FALSE, HOST_EXAMPLE, FALSE)

UrlPool ==
  { NoUrl, U_OK, U_DENIED,
    Url("not a url", FALSE, "", FALSE, <<>>, FALSE),
    Url("http://codeload.github.com/r.zip", TRUE, "http:", FALSE,
        HOST_CODELOAD, FALSE),
    Url("https://user:pw@codeload.github.com/r.zip", TRUE, "https:", TRUE,
        HOST_CODELOAD, FALSE),
    Url("https://127.0.0.1/r.zip", TRUE, "https:", FALSE,
        <<49, 50, 55, 46, 48, 46, 48, 46, 49>>, TRUE),
    Url("https://[::1]/r.zip", TRUE, "https:", FALSE, <<91, 58, 58, 49, 93>>, TRUE),
    Url("https://localhost/r.zip", TRUE, "https:", FALSE, LOCALHOST, FALSE),
    Url("https://cafe/r.zip", TRUE, "https:", FALSE, <<99, 97, 102, 101>>, FALSE) }

\* new URL(u).hostname.toLowerCase(), "" when u does not parse.
safeHost(u) == IF u.parses THEN toLowerCase(u.hostname) ELSE <<>>

(* ----------------------- responses and upstream ------------------------ *)

\* What the handler returns: status, text of a plain answer, body and
\* file-name extension of a download, Location of a redirect, and the
\* Server-Timing metrics in the order they were added.
NoResponse ==
  [status |-> 0, text |-> "", body |-> Buf(<<>>), ext |-> "", location |-> "",
   timing |-> <<>>]

\* new Response(text, { status })
plainResponse(text, status) ==
  [NoResponse EXCEPT !.status = status, !.text = text]

\* Response.redirect(remoteUrl, 302)
redirect(u) == [NoResponse EXCEPT !.status = 302, !.location = u.href]

\* new Response(bytes, { headers }) with filename="<name>.<ext>"
buildDownloadResponse(b, ext) ==
  [NoResponse EXCEPT !.status = 200, !.body = b, !.ext = ext]

addTiming(r, metric) == [r EXCEPT !.timing = Append(@, metric)]

\* An upstream response: ok and status, the final URL (NoUrl for the empty
\* string), the content-length header (-1 when absent), whether there is a
\* body stream, and the chunks the stream delivers (without a stream, the
\* one chunk is what arrayBuffer() resolves to).
Upstream(ok, status, url, contentLength, hasBody, cs) ==
  [ok |-> ok, status |-> status, url |-> url, contentLength |-> contentLength,
   hasBody |-> hasBody, chunks |-> cs]

\* No response at hand: fetch threw, or the variable is not set.
NoUpstream == Upstream(FALSE, 0, NoUrl, -1, FALSE, <<>>)

\* safeHost(r.url || remoteUrl)
finalHostOf(r, u) == safeHost(IF r.url.href # "" THEN r.url ELSE u)

\* The answers to the HEAD request: failures with and without a length, and
\* successes from the requested host, an allowed other host and a host
\* outside the allowlist, with no length, a small one, and one above each
\* limit of e.
HeadLens(e) == {0, 100, cpuLimitOf(e) + 1, softLimitOf(e) + 1}

HeadResponses(e) ==
  {Upstream(FALSE, 405, u, n, FALSE, <<>>) :
     u \in {NoUrl, U_DENIED}, n \in {0, softLimitOf(e) + 1}}
    \cup {Upstream(TRUE, 200, u, n, FALSE, <<>>) :
            u \in {NoUrl, U_BITBUCKET, U_DENIED}, n \in HeadLens(e)}

\* A body one byte above the default MAX_ZIP_BYTES.
BigBody == [head |-> <<>>, zeros |-> DEFAULT_MAX_ZIP_BYTES + 1]

\* The bodies that also arrive in several chunks, with a content-length
\* header or without a stream: three arbitrary bytes and the two archives
\* of DamagedBases (106 and 193 bytes).
StreamBodies == {<<1, 2, 3>>} \cup {zipOf(ms) : ms \in DamagedBases}

SplitPoints == {0, 100, 160}

chunkings(d) ==
  {<<Buf(SubSeq(d, 1, n)), Buf(SubSeq(d, n + 1, Len(d)))>> :
     n \in {m \in SplitPoints \cup {Len(d)} : m <= Len(d)}}
    \cup {<<Buf(SubSeq(d, 1, Min(30, Len(d)))),
            Buf(SubSeq(d, Min(30, Len(d)) + 1, Min(100, Len(d)))),
            Buf(SubSeq(d, Min(100, Len(d)) + 1, Len(d)))>>}

\* The answers to the GET request.  Every input arrives as one chunk of a
\* stream without content-length.
GetResponses ==
  {Upstream(TRUE, 200, NoUrl, -1, TRUE, <<b>>) : b \in Inputs \cup {BigBody}}
    \cup UNION {{Upstream(TRUE, 200, NoUrl, -1, TRUE, cs) : cs \in chunkings(d)} :
                  d \in StreamBodies}
    \cup {Upstream(TRUE, 200, NoUrl, BufLen(b), TRUE, <<b>>) :
            b \in {Buf(d) : d \in StreamBodies} \cup {BigBody}}
    \cup {Upstream(TRUE, 200, NoUrl, -1, FALSE, <<b>>) :
            b \in {Buf(d) : d \in StreamBodies} \cup {BigBody}}
    \cup {Upstream(TRUE, 200, u, -1, TRUE, <<Buf(d)>>) :
            u \in {U_BITBUCKET, U_DENIED}, d \in StreamBodies}
    \cup {Upstream(FALSE, 404, u, -1, TRUE, <<Buf(<<1, 2, 3>>)>>) :
            u \in {NoUrl, U_DENIED}}

\* A variant that also refuses a body of exactly maxBytes.
overLimitInclusive(n, maxBytes) == n >= maxBytes

\* received > maxBytes
overLimit(n, maxBytes) == n > maxBytes

\* out = new Uint8Array(received); out.set(c, offset) for each chunk.
RECURSIVE concatChunks(_, _)
concatChunks(cs, k) ==
  IF k > Len(cs) THEN Buf(<<>>)
  ELSE LET rest == concatChunks(cs, k + 1)
       IN IF BufLen(rest) = 0 THEN cs[k]
          ELSE [head |-> subarray(cs[k], 0, BufLen(cs[k])) \o rest.head,
                zeros |-> rest.zeros]

\* What readLimited returns: ok and the body, or not ok with status 413.
Limited(ok, status, body) == [ok |-> ok, status |-> status, body |-> body]

NotLimited == Limited(FALSE, 0, Buf(<<>>))
TooLarge == Limited(FALSE, 413, Buf(<<>>))

\* The cache of the one cache key: empty, or the response put there.
NoEntry == [present |-> FALSE, resp |-> NoResponse]

(* -------------------------- the state machine -------------------------- *)

NotParsed == Thrown("")

coreVars == <<toc, flatten, rootMarkerPresent, rebuilt>>
streamVars == <<reader, chunks, received>>
requestVars == <<env, remoteUrl>>

\* A deployment (env), a request (?url=) and an empty cache; nothing of the
\* handler has run.
Init ==
  /\ env \in EnvPool
  /\ remoteUrl \in UrlPool
  /\ cache = NoEntry
  /\ calls = <<>>
  /\ pc = "start"
  /\ head = NoUpstream
  /\ res = NoUpstream
  /\ reader = <<>>
  /\ chunks = <<>>
  /\ received = 0
  /\ limited = NotLimited
  /\ resp = NoResponse
  /\ bytes = Buf(<<>>)
  /\ toc = NotParsed
  /\ flatten = NoFlatten
  /\ rootMarkerPresent = FALSE
  /\ rebuilt = NotRebuilt

\* A variant that lets any protocol through.
validateUrlAnyProtocol(u, e) ==
  LET host == toLowerCase(u.hostname)
      no(text, status) == [ok |-> FALSE, response |-> plainResponse(text, status)]
  IN IF ~u.parses THEN no("Invalid url parameter", 400)
     ELSE IF u.credentials THEN no("Credentials in URLs are not allowed", 400)
     ELSE IF isIpLiteral(host) \/ host = LOCALHOST
       THEN no("IP/localhost targets are not allowed", 400)
     ELSE IF ~includes(allowHostsOf(e), host) THEN no("Host not permitted", 403)
     ELSE [ok |-> TRUE, response |-> NoResponse]

validateUrl(u, e) ==
  LET host == toLowerCase(u.hostname)
      no(text, status) == [ok |-> FALSE, response |-> plainResponse(text, status)]
  IN IF ~u.parses THEN no("Invalid url parameter", 400)
     ELSE IF u.protocol # "https:" THEN no("Only https URLs are allowed", 400)
     ELSE IF u.credentials THEN no("Credentials in URLs are not allowed", 400)
     ELSE IF isIpLiteral(host) \/ host = LOCALHOST
       THEN no("IP/localhost targets are not allowed", 400)
     ELSE IF ~includes(allowHostsOf(e), host) THEN no("Host not permitted", 403)
     ELSE [ok |-> TRUE, response |-> NoResponse]

\* if (!remoteUrl) ...; validation = validateUrl(remoteUrl, env)
ValidateUrl ==
  /\ pc = "start"
  /\ LET validation == validateUrl(remoteUrl, env)
     IN IF remoteUrl.href = ""
          THEN resp' = plainResponse("Missing ?url", 400) /\ pc' = "returned"
        ELSE IF ~validation.ok
          THEN resp' = validation.response /\ pc' = "returned"
        ELSE resp' = resp /\ pc' = "validated"
  /\ UNCHANGED <<bytes, coreVars, requestVars, cache, calls, head, res,
                 streamVars, limited>>

\* cached = await cache.match(cacheKey)
CacheMatch ==
  /\ pc = "validated"
  /\ calls' = Append(calls, "cache.match")
  /\ IF cache.present
       THEN resp' = addTiming(cache.resp, "cache;desc=hit") /\ pc' = "returned"
       ELSE resp' = resp /\ pc' = "miss"
  /\ UNCHANGED <<bytes, coreVars, requestVars, cache, head, res, streamVars,
                 limited>>

\* Number(head?.headers?.get("content-length") || 0)
headLenOf(h) == IF h.contentLength > 0 THEN h.contentLength ELSE 0

\* The HEAD pre-check: fetch throws (head stays unset) or answers h.
HeadCheck ==
  /\ pc = "miss"
  /\ calls' = Append(calls, "fetch HEAD")
  /\ \E h \in HeadResponses(env) \cup {NoUpstream} :
       /\ head' = h
       /\ IF h.ok /\ ~includes(allowHostsOf(env), finalHostOf(h, remoteUrl))
            THEN /\ resp' = plainResponse("Redirected host not permitted", 403)
                 /\ pc' = "returned"
          ELSE IF h.ok /\ headLenOf(h) > softLimitOf(env)
            THEN /\ resp' = addTiming(redirect(remoteUrl), "reason;desc=size>hard")
                 /\ pc' = "returned"
          ELSE IF h.ok /\ headLenOf(h) > cpuLimitOf(env)
            THEN /\ resp' = addTiming(redirect(remoteUrl), "reason;desc=size>cpu")
                 /\ pc' = "returned"
          ELSE resp' = resp /\ pc' = "head-checked"
  /\ UNCHANGED <<bytes, coreVars, requestVars, cache, res, streamVars, limited>>

\* res = await fetch(remoteUrl): it throws, or answers r.  head is not
\* read again.
GetFetch ==
  /\ pc = "head-checked"
  /\ calls' = Append(calls, "fetch GET")
  /\ head' = NoUpstream
  /\ \/ res' = NoUpstream /\ resp' = resp /\ pc' = "threw"
     \/ \E r \in GetResponses :
          /\ res' = r
          /\ IF ~includes(allowHostsOf(env), finalHostOf(r, remoteUrl))
               THEN /\ resp' = plainResponse("Redirected host not permitted", 403)
                    /\ pc' = "returned"
             ELSE IF ~r.ok
               THEN /\ resp' = plainResponse("Upstream error", 502)
                    /\ pc' = "returned"
             ELSE resp' = resp /\ pc' = "got"
  /\ UNCHANGED <<bytes, coreVars, requestVars, cache, streamVars, limited>>

\* readLimited up to the reader: the content-length check, and the whole
\* body at once when there is no stream.
ReadLimitedEnter ==
  /\ pc = "got"
  /\ IF res.contentLength >= 0 /\ overLimit(res.contentLength, softLimitOf(env))
       THEN limited' = TooLarge /\ pc' = "limited" /\ UNCHANGED streamVars
     ELSE IF ~res.hasBody
       THEN /\ limited' = IF overLimit(BufLen(res.chunks[1]), softLimitOf(env))
                          THEN TooLarge ELSE Limited(TRUE, 0, res.chunks[1])
            /\ pc' = "limited"
            /\ UNCHANGED streamVars
     ELSE /\ reader' = res.chunks
          /\ chunks' = <<>>
          /\ received' = 0
          /\ limited' = limited
          /\ pc' = "reading"
  /\ UNCHANGED <<bytes, coreVars, requestVars, cache, calls, head, res, resp>>

\* One reader.read() that delivers a chunk.
ReadChunk ==
  /\ pc = "reading"
  /\ reader # <<>>
  /\ reader' = Tail(reader)
  /\ received' = received + BufLen(Head(reader))
  /\ IF overLimit(received', softLimitOf(env))
       THEN limited' = TooLarge /\ chunks' = chunks /\ pc' = "limited"
       ELSE limited' = limited /\ chunks' = Append(chunks, Head(reader))
              /\ pc' = "reading"
  /\ UNCHANGED <<bytes, coreVars, requestVars, cache, calls, head, res, resp>>

\* reader.read() reports done: the chunks are copied into one array.
ReadDone ==
  /\ pc = "reading"
  /\ reader = <<>>
  /\ limited' = Limited(TRUE, 0, concatChunks(chunks, 1))
  /\ pc' = "limited"
  /\ UNCHANGED <<bytes, coreVars, requestVars, cache, calls, head, res,
                 streamVars, resp>>

\* if (!limited.ok) redirect; bytes = limited.body.  Nothing of the read is
\* used after that.
HandleLimited ==
  /\ pc = "limited"
  /\ IF ~limited.ok
       THEN /\ resp' = addTiming(redirect(remoteUrl), "reason;desc=readLimited")
            /\ pc' = "returned"
            /\ UNCHANGED <<bytes, res, streamVars, limited>>
       ELSE /\ bytes' = limited.body
            /\ pc' = "fetched"
            /\ res' = NoUpstream
            /\ reader' = <<>>
            /\ chunks' = <<>>
            /\ received' = 0
            /\ limited' = NotLimited
            /\ resp' = resp
  /\ UNCHANGED <<coreVars, requestVars, cache, calls, head>>

\* ctx.waitUntil(cache.put(cacheKey, r.clone())); return addTiming(r, metric)
serve(r, metric) ==
  /\ cache' = [present |-> TRUE, resp |-> r]
  /\ calls' = Append(calls, "cache.put")
  /\ resp' = addTiming(r, metric)

\* A variant that names every download .sublime-package.
extAlwaysPackage(marker) == "sublime-package"

\* ext = rootMarkerPresent ? "zip" : "sublime-package"
extOf(marker) == IF marker THEN "zip" ELSE "sublime-package"

\* toc = parseZipTOC(bytes); a throw is the pass-through path.
ParseZipTOC ==
  /\ pc = "fetched"
  /\ toc' = parseZipTOC(bytes)
  /\ IF toc'.ok
       THEN pc' = "parsed" /\ UNCHANGED <<cache, calls, resp>>
       ELSE /\ pc' = "passthru-notzip"
            /\ serve(buildDownloadResponse(bytes, "zip"), "path;desc=passthru-notzip")
  /\ UNCHANGED <<bytes, flatten, rootMarkerPresent, rebuilt, requestVars, head,
                 res, streamVars, limited>>

\* flatten = shouldFlattenFromTOC(toc)
ShouldFlattenFromTOC ==
  /\ pc = "parsed"
  /\ flatten' = shouldFlattenFromTOC(toc)
  /\ pc' = "decided"
  /\ UNCHANGED <<bytes, toc, rootMarkerPresent, rebuilt, requestVars, cache,
                 calls, head, res, streamVars, limited, resp>>

\* rootMarkerPresent = hasRootMarkerInTOC(toc, flatten?.prefix ?? "")
HasRootMarkerInTOC ==
  /\ pc = "decided"
  /\ rootMarkerPresent' =
       hasRootMarkerInTOC(toc, IF flatten.flat THEN flatten.prefix ELSE <<>>)
  /\ pc' = "marked"
  /\ UNCHANGED <<bytes, toc, flatten, rebuilt, requestVars, cache, calls, head,
                 res, streamVars, limited, resp>>

\* if (!flatten): the original bytes are served.
ServeOriginal ==
  /\ pc = "marked"
  /\ ~flatten.flat
  /\ pc' = "original-structure"
  /\ serve(buildDownloadResponse(bytes, extOf(rootMarkerPresent)),
           "path;desc=original-structure")
  /\ UNCHANGED <<bytes, coreVars, requestVars, head, res, streamVars, limited>>

\* A variant that serves what rebuildZipFlatten left behind when it threw.
flattenedResponseBestEffort(r, ext) ==
  [ok |-> TRUE, response |-> buildDownloadResponse(Buf(r.out), ext)]

\* try { flattenedBytes = rebuildZipFlatten(...) } catch { redirect }:
\* the download built from the return value, or nothing after a throw.
flattenedResponse(r, ext) ==
  IF r.ok THEN [ok |-> TRUE, response |-> buildDownloadResponse(Buf(r.out), ext)]
  ELSE [ok |-> FALSE, response |-> NoResponse]

\* flattenedBytes = rebuildZipFlatten(bytes, toc, flatten.prefix); a throw is
\* the redirect path.
RebuildZipFlatten ==
  /\ pc = "marked"
  /\ flatten.flat
  /\ rebuilt' = rebuildZipFlatten(bytes, toc, flatten.prefix)
  /\ pc' = IF rebuilt'.ok THEN "flatten-lossless" ELSE "flatten-failed"
  /\ LET f == flattenedResponse(rebuilt', extOf(rootMarkerPresent))
     IN IF f.ok THEN serve(f.response, "path;desc=flatten-lossless")
        ELSE /\ resp' = addTiming(redirect(remoteUrl), "reason;desc=flatten-failed")
             /\ UNCHANGED <<cache, calls>>
  /\ UNCHANGED <<bytes, toc, flatten, rootMarkerPresent, requestVars, head, res,
                 streamVars, limited>>

Returned ==
  pc \in {"returned", "threw", "passthru-notzip", "original-structure",
          "flatten-lossless", "flatten-failed"}

\* The same request arrives again: the cache is what the last run left.
NewRequest ==
  /\ Returned
  /\ pc' = "start"
  /\ calls' = <<>>
  /\ head' = NoUpstream
  /\ res' = NoUpstream
  /\ reader' = <<>>
  /\ chunks' = <<>>
  /\ received' = 0
  /\ limited' = NotLimited
  /\ resp' = NoResponse
  /\ bytes' = Buf(<<>>)
  /\ toc' = NotParsed
  /\ flatten' = NoFlatten
  /\ rootMarkerPresent' = FALSE
  /\ rebuilt' = NotRebuilt
  /\ UNCHANGED <<requestVars, cache>>

Next ==
  \/ ValidateUrl
  \/ CacheMatch
  \/ HeadCheck
  \/ GetFetch
  \/ ReadLimitedEnter
  \/ ReadChunk
  \/ ReadDone
  \/ HandleLimited
  \/ ParseZipTOC
  \/ ShouldFlattenFromTOC
  \/ HasRootMarkerInTOC
  \/ ServeOriginal
  \/ RebuildZipFlatten
  \/ NewRequest

Spec == Init /\ [][Next]_vars

(* ----------------------- reading an archive back ----------------------- *)

\* The fields of the central-directory record at p, of the local header at
\* p and of the EOCD record at p, read as a ZIP reader reads them.
cenAt(B, p) ==
  LET nameLen == getUint16(B, p + 28) IN
  [sig |-> hasSig(B, p, SIG_CEN), pos |-> p,
   flags |-> getUint16(B, p + 8), method |-> getUint16(B, p + 10),
   crc32 |-> getUint32(B, p + 16), compSize |-> getUint32(B, p + 20),
   uncompSize |-> getUint32(B, p + 24), nameLen |-> nameLen,
   locOff |-> getUint32(B, p + 42),
   nameBytes |-> subarray(B, p + CEN_SIZE, p + CEN_SIZE + nameLen),
   next |-> p + CEN_SIZE + nameLen + getUint16(B, p + 30) + getUint16(B, p + 32)]

locAt(B, p) ==
  LET nameLen == getUint16(B, p + 26) IN
  [sig |-> hasSig(B, p, SIG_LOC),
   flags |-> getUint16(B, p + 6), method |-> getUint16(B, p + 8),
   crc32 |-> getUint32(B, p + 14), compSize |-> getUint32(B, p + 18),
   uncompSize |-> getUint32(B, p + 22), nameLen |-> nameLen,
   nameBytes |-> subarray(B, p + LOC_SIZE, p + LOC_SIZE + nameLen),
   dataPos |-> p + LOC_SIZE + nameLen + getUint16(B, p + 28)]

RECURSIVE centralFrom(_, _, _)
centralFrom(B, p, n) ==
  IF n = 0 THEN <<>>
  ELSE <<cenAt(B, p)>> \o centralFrom(B, cenAt(B, p).next, n - 1)

\* The rebuilt archive and its trailer.
Out == Buf(rebuilt.out)
OutEocd == BufLen(Out) - EOCD_SIZE
OutCount == getUint16(Out, OutEocd + 10)
OutCdSize == getUint32(Out, OutEocd + 12)
OutCdStart == getUint32(Out, OutEocd + 16)
OutCentral == centralFrom(Out, OutCdStart, OutCount)

\* The entries of the TOC that a flattened archive is to hold: the
\* non-directory entries with something left after the prefix, in TOC order.
Surviving ==
  SelectSeq(toc.entries, LAMBDA e : ~e.isDir /\ Len(e.name) > Len(flatten.prefix))

NewName(e) == SubSeq(e.name, Len(flatten.prefix) + 1, Len(e.name))

\* How many payload bytes of entry e the source buffer holds.
Available(e) == Max(0, Min(e.compSize, BufLen(bytes) - e.dataStart))

Decided == pc \in {"decided", "marked", "original-structure", "flatten-lossless",
                   "flatten-failed"}
Marked == pc \in {"marked", "original-structure", "flatten-lossless", "flatten-failed"}
Parsed == pc \in {"parsed", "decided", "marked", "original-structure",
                  "flatten-lossless", "flatten-failed"}
ParseTried == Parsed \/ pc = "passthru-notzip"

(* ------------------------------- claims -------------------------------- *)

\* C1: shouldFlattenFromTOC answers with a prefix exactly when tops has one
\* element and hasRootFiles is false, and the prefix is then that one
\* top-level name followed by "/"; for every other TOC it answers false.
C1_FlattenDecision ==
  Decided =>
    /\ flatten.flat <=> (Cardinality(toc.tops) = 1 /\ ~toc.hasRootFiles)
    /\ flatten.flat => \E top \in toc.tops : flatten.prefix = top \o <<SLASH>>
    /\ ~flatten.flat => flatten.prefix = <<>>

C1_Witness ==
  /\ pc = "decided"
  /\ flatten.flat
  /\ flatten.prefix = P_SLASH
  /\ Len(toc.entries) = 2

\* C2: hasRootMarkerInTOC(toc, prefix) is true exactly when some entry that
\* is not a directory is named prefix + ".no-sublime-package" (the bare
\* marker name for the empty prefix).
C2_MarkerExact ==
  Marked =>
    (rootMarkerPresent <=>
       \E k \in 1..Len(toc.entries) :
         /\ ~toc.entries[k].isDir
         /\ toc.entries[k].name = flatten.prefix \o MARKER)

C2_Witness ==
  /\ pc = "marked"
  /\ rootMarkerPresent
  /\ flatten.flat
  /\ \E k \in 1..Len(toc.entries) : toc.entries[k].isDir

\* C3: a successful rebuildZipFlatten writes, as local headers and as
\* central-directory records alike, exactly the non-directory entries of the
\* TOC with a non-empty name after the prefix, renamed by removing the
\* prefix, in TOC order; both EOCD entry counts are their number.
C3_SurvivingEntries ==
  pc = "flatten-lossless" =>
    /\ hasSig(Out, OutEocd, SIG_EOCD)
    /\ getUint16(Out, OutEocd + 8) = Len(Surviving)
    /\ OutCount = Len(Surviving)
    /\ \A k \in 1..Len(Surviving) :
         /\ OutCentral[k].sig
         /\ OutCentral[k].nameBytes = encode(NewName(Surviving[k]))
         /\ locAt(Out, OutCentral[k].locOff).sig
         /\ locAt(Out, OutCentral[k].locOff).nameBytes = encode(NewName(Surviving[k]))
         /\ k > 1 => OutCentral[k - 1].locOff < OutCentral[k].locOff
    /\ (IF OutCount = 0 THEN OutCdStart ELSE OutCentral[OutCount].next) = OutEocd

C3_Witness ==
  /\ pc = "flatten-lossless"
  /\ Len(toc.entries) = 2
  /\ \E k \in 1..2 : toc.entries[k].isDir
  /\ Len(Surviving) = 1
  /\ OutCount = 1

\* C5: the output is [local header + payload pairs][central directory][EOCD]
\* and every offset agrees with the bytes written: each record's
\* local-header offset is where that header begins, the EOCD start is the
\* length of all pairs, the EOCD size the length of the central directory,
\* and the output length is start + size + 22.
RECURSIVE PairsEnd(_)
PairsEnd(k) ==
  IF k = 0 THEN 0
  ELSE PairsEnd(k - 1) + LOC_SIZE + Len(encode(NewName(Surviving[k])))
         + Available(Surviving[k])

C5_OffsetsAgree ==
  pc = "flatten-lossless" =>
    /\ BufLen(Out) = OutCdStart + OutCdSize + EOCD_SIZE
    /\ hasSig(Out, OutEocd, SIG_EOCD)
    /\ OutCount = Len(Surviving)
    /\ \A k \in 1..OutCount :
         /\ OutCentral[k].sig
         /\ OutCentral[k].locOff = PairsEnd(k - 1)
         /\ locAt(Out, OutCentral[k].locOff).sig
         /\ locAt(Out, OutCentral[k].locOff).dataPos + Available(Surviving[k])
              = PairsEnd(k)
         /\ OutCentral[k].pos = (IF k = 1 THEN OutCdStart ELSE OutCentral[k - 1].next)
    /\ OutCdStart = PairsEnd(OutCount)
    /\ OutCdStart + OutCdSize
         = (IF OutCount = 0 THEN OutCdStart ELSE OutCentral[OutCount].next)

C5_Witness ==
  /\ pc = "flatten-lossless"
  /\ OutCount = 2
  /\ OutCentral[2].locOff > LOC_SIZE
  /\ OutCdSize > 2 * CEN_SIZE

\* C4: every surviving entry keeps its crc32, method, compressed and
\* uncompressed size, and its new local header is followed by exactly
\* compSize bytes, the source bytes dataStart .. dataStart + compSize.
C4_PayloadVerbatim ==
  pc = "flatten-lossless" =>
    \A k \in 1..Len(Surviving) :
      LET e == Surviving[k]
          c == OutCentral[k]
          l == locAt(Out, c.locOff)
          end == IF k < OutCount THEN OutCentral[k + 1].locOff ELSE OutCdStart
      IN /\ k <= OutCount
         /\ <<c.crc32, c.method, c.compSize, c.uncompSize>>
              = <<e.crc32, e.method, e.compSize, e.uncompSize>>
         /\ <<l.crc32, l.method, l.compSize, l.uncompSize>>
              = <<e.crc32, e.method, e.compSize, e.uncompSize>>
         /\ end - l.dataPos = e.compSize
         /\ e.dataStart + e.compSize <= BufLen(bytes)
         /\ subarray(Out, l.dataPos, l.dataPos + e.compSize)
              = subarray(bytes, e.dataStart, e.dataStart + e.compSize)

\* C6: when shouldFlattenFromTOC returns a prefix for a parsed TOC, every
\* non-directory entry starts with it, and rebuildZipFlatten never throws
\* "entry outside prefix".
C6_PrefixCoversFiles ==
  /\ (Decided /\ flatten.flat) =>
       \A k \in 1..Len(toc.entries) :
         toc.entries[k].isDir \/ startsWith(toc.entries[k].name, flatten.prefix)
  /\ pc = "flatten-failed" => rebuilt.err # "entry outside prefix"

\* C7: parseZipTOC never returns a TOC with fewer entries than the EOCD
\* declares: a record without the central-directory signature makes it fail.
C7_NoSilentShortTOC ==
  (Parsed /\ toc.ok) =>
    Len(toc.entries) = getUint16(bytes, findEOCD(bytes) + 10)

\* C8: every entry of a returned TOC has dataStart + compSize <= the length
\* of the parsed buffer.
C8_PayloadInsideBuffer ==
  (Parsed /\ toc.ok) =>
    \A k \in 1..Len(toc.entries) :
      toc.entries[k].dataStart + toc.entries[k].compSize <= BufLen(bytes)

\* C9: every range taken from header fields is checked against the buffer
\* before use: no TOC is returned whose name or payload range leaves the
\* buffer, no archive is rebuilt from a payload range that leaves it, and a
\* read outside the buffer fails as a bounds violation of its own kind.
C9_BoundsValidated ==
  /\ (Parsed /\ toc.ok) =>
       LET cd == centralFrom(bytes, getUint32(bytes, findEOCD(bytes) + 16),
                             Len(toc.entries))
       IN \A k \in 1..Len(toc.entries) :
            /\ cd[k].pos + CEN_SIZE + cd[k].nameLen <= BufLen(bytes)
            /\ toc.entries[k].dataStart <= BufLen(bytes)
  /\ pc = "flatten-lossless" =>
       \A k \in 1..Len(Surviving) : Available(Surviving[k]) = Surviving[k].compSize
  /\ (pc = "passthru-notzip" /\ findEOCD(bytes) >= 0
        /\ ~InRange(bytes, getUint32(bytes, findEOCD(bytes) + 16), 4))
       => toc.err = "RangeError"

\* The four bytes of the EOCD signature 0x06054b50 as they lie in a buffer.
EocdSigBytes == <<80, 75, 5, 6>>

NoEocdSigAt(lo, hi) ==
  \A i \in lo..hi : subarray(bytes, i, i + 4) # EocdSigBytes

\* C10 as stated: no EOCD signature anywhere in the trailing
\* 64 KiB + 22 bytes makes parseZipTOC fail with "EOCD not found".
C10_TrailingWindow64K ==
  (ParseTried
     /\ NoEocdSigAt(Max(0, BufLen(bytes) - (65536 + EOCD_SIZE)), BufLen(bytes) - 4))
    => (~toc.ok /\ toc.err = "EOCD not found")

\* C10 as amended: no EOCD signature at any offset from
\* length - min(length, 0xFFFF + 22 + 1024) to length - 22 (none at all for
\* a buffer shorter than 22 bytes) makes parseZipTOC fail with
\* "EOCD not found" and return no TOC.
C10_ScanWindow ==
  (ParseTried
     /\ NoEocdSigAt(Max(0, BufLen(bytes) - MaxScanCap), BufLen(bytes) - EOCD_SIZE))
    => (pc = "passthru-notzip" /\ ~toc.ok /\ toc.err = "EOCD not found"
          /\ toc.entries = <<>>)

C10_Witness ==
  /\ pc = "passthru-notzip"
  /\ toc.err = "EOCD not found"
  /\ BufLen(bytes) > MaxScanCap
  /\ ~NoEocdSigAt(0, BufLen(bytes) - MaxScanCap - 1)

\* C14: every emitted entry carries the same general-purpose flags in its
\* local header and in its central-directory record: the source entry's
\* flags with bit 11 set, bit 3 cleared and every other bit unchanged, a
\* 16-bit value.
C14_FlagsRewritten ==
  pc = "flatten-lossless" =>
    \A k \in 1..Len(Surviving) :
      LET c == OutCentral[k]
          l == locAt(Out, c.locOff)
      IN /\ k <= OutCount
         /\ l.flags = c.flags
         /\ c.flags \in 0..65535
         /\ \A n \in 0..15 :
              Bit(c.flags, n) = (IF n = 11 THEN 1
                                 ELSE IF n = 3 THEN 0
                                 ELSE Bit(Surviving[k].flags, n))

C14_Witness ==
  /\ pc = "flatten-lossless"
  /\ \E k \in 1..Len(Surviving) :
       /\ Bit(Surviving[k].flags, 3) = 1
       /\ Bit(Surviving[k].flags, 11) = 0
       /\ Bit(Surviving[k].flags, 0) = 1
       /\ OutCentral[k].flags = Surviving[k].flags + 2048 - 8

\* The positions where a non-empty '/'-separated segment of s begins, and
\* the first such segment.
SegStarts(s) ==
  {i \in 1..Len(s) : s[i] # SLASH /\ (i = 1 \/ s[i - 1] = SLASH)}

FirstSegment(s) ==
  LET i == CHOOSE a \in SegStarts(s) : \A b \in SegStarts(s) : a <= b
      j == CHOOSE c \in i..Len(s) :
             /\ \A d \in i..c : s[d] # SLASH
             /\ (c = Len(s) \/ s[c + 1] = SLASH)
  IN SubSeq(s, i, j)

\* C15: in every returned TOC, tops is exactly the set of first non-empty
\* '/'-separated segments of the entry names, directories and files alike
\* (a name without one adds nothing); hasRootFiles is true exactly when
\* some non-directory entry has one non-empty segment; isDir is true
\* exactly when the name ends with '/'.
C15_TopsAndRootFiles ==
  (Parsed /\ toc.ok) =>
    /\ toc.tops = {FirstSegment(toc.entries[k].name) :
                     k \in {j \in 1..Len(toc.entries) :
                              SegStarts(toc.entries[j].name) # {}}}
    /\ toc.hasRootFiles <=>
         \E k \in 1..Len(toc.entries) :
           /\ ~toc.entries[k].isDir
           /\ Cardinality(SegStarts(toc.entries[k].name)) = 1
    /\ \A k \in 1..Len(toc.entries) :
         toc.entries[k].isDir <=>
           (toc.entries[k].name # <<>>
              /\ toc.entries[k].name[Len(toc.entries[k].name)] = SLASH)

C15_Witness ==
  /\ pc = "parsed"
  /\ Cardinality(toc.tops) = 2
  /\ toc.hasRootFiles
  /\ \E k \in 1..Len(toc.entries) : toc.entries[k].isDir

\* The central directory of the body the handler answered with.
ServedEocd == BufLen(resp.body) - EOCD_SIZE
ServedCentral ==
  centralFrom(resp.body, getUint32(resp.body, ServedEocd + 16),
              getUint16(resp.body, ServedEocd + 10))

MarkerServedAtRoot ==
  \E k \in 1..Len(ServedCentral) :
    ServedCentral[k].sig /\ ServedCentral[k].nameBytes = MARKER

\* Some non-directory entry of the fetched ZIP has the name n.
HasFile(n) ==
  \E k \in 1..Len(toc.entries) : ~toc.entries[k].isDir /\ toc.entries[k].name = n

\* C11 as stated: an archive answer (original-structure or flattened) is
\* named .zip exactly when .no-sublime-package is a non-directory entry at
\* the root of the fetched ZIP, and .sublime-package otherwise; a flattened
\* archive named .zip holds the marker at its root.
C11_MarkerAtOriginalRoot ==
  pc \in {"original-structure", "flatten-lossless"} =>
    /\ resp.ext = (IF HasFile(MARKER) THEN "zip" ELSE "sublime-package")
    /\ (pc = "flatten-lossless" /\ resp.ext = "zip") => MarkerServedAtRoot

\* C11 as amended: an archive answer is named .zip exactly when
\* .no-sublime-package is a non-directory entry at the root of the tree
\* that is served - at the root of the fetched ZIP when it is served
\* unchanged, directly inside its single top-level folder when it is
\* flattened - and .sublime-package otherwise; a flattened archive holds
\* the marker at its root exactly when it is named .zip.
C11_MarkerAtServedRoot ==
  /\ pc = "original-structure" =>
       /\ resp.status = 200
       /\ resp.body = bytes
       /\ resp.ext = (IF HasFile(MARKER) THEN "zip" ELSE "sublime-package")
  /\ pc = "flatten-lossless" =>
       /\ resp.status = 200
       /\ resp.ext = (IF HasFile(flatten.prefix \o MARKER) THEN "zip"
                      ELSE "sublime-package")
       /\ resp.ext = "zip" <=> MarkerServedAtRoot

C11_Witness ==
  /\ pc = "flatten-lossless"
  /\ resp.ext = "zip"
  /\ MarkerServedAtRoot
  /\ ~HasFile(MARKER)
  /\ Len(ServedCentral) = 2

\* MAX_ZIP_BYTES of the deployment, and the length of the first n chunks of
\* a chunk sequence.
Cap == IF env.MAX_ZIP_BYTES = 0 THEN 25000000 ELSE env.MAX_ZIP_BYTES

RECURSIVE TotalLen(_, _)
TotalLen(cs, n) == IF n = 0 THEN 0 ELSE TotalLen(cs, n - 1) + BufLen(cs[n])

\* How many chunks of the GET response readLimited has taken.
Taken == IF res.hasBody THEN Len(res.chunks) - Len(reader) ELSE Len(res.chunks)

\* The handler has learned that the upstream ZIP is larger than
\* MAX_ZIP_BYTES: from the content-length of a successful HEAD answer it
\* looked at, from the content-length of the GET answer, or from the bytes
\* counted while reading the body.
OversizeByHead ==
  head.ok /\ head.url # U_DENIED /\ head.contentLength > Cap

OversizeByGet ==
  /\ res.ok
  /\ res.url # U_DENIED
  /\ pc \in {"limited", "returned"}
  /\ res.contentLength > Cap \/ TotalLen(res.chunks, Taken) > Cap

\* C12: a request whose upstream ZIP is larger than MAX_ZIP_BYTES is
\* answered with status 413, however the size was learned.
C12_Rejected413 ==
  (pc = "returned" /\ (OversizeByHead \/ OversizeByGet)) => resp.status = 413

\* The host of the requested URL is one of those on the allowlist of both
\* deployments; the URL has one of the defects that are answered with 400.
Allowed(h) == h \in {HOST_CODELOAD, HOST_BITBUCKET}

Defective(u) ==
  \/ u.href = ""
  \/ ~u.parses
  \/ u.protocol # "https:"
  \/ u.credentials
  \/ u.ipLiteral
  \/ u.hostname = LOCALHOST

IsPrefix(a, b) == Len(a) <= Len(b) /\ SubSeq(b, 1, Len(a)) = a

C16_WholeBodiesOnly ==
  /\ resp.status = 200 =>
       \/ /\ pc = "returned"
          /\ calls = <<"cache.match">>
          /\ cache.present
          /\ resp.body = cache.resp.body
       \/ /\ pc = "passthru-notzip"
          /\ ~toc.ok
          /\ resp.body = bytes
          /\ resp.ext = "zip"
       \/ /\ pc = "original-structure"
          /\ toc.ok /\ ~flatten.flat
          /\ resp.body = bytes
       \/ /\ pc = "flatten-lossless"
          /\ rebuilt.ok
          /\ resp.body = Buf(rebuilt.out)
          /\ hasSig(resp.body, ServedEocd, SIG_EOCD)
          /\ BufLen(resp.body) = getUint32(resp.body, ServedEocd + 16)
                                   + getUint32(resp.body, ServedEocd + 12) + EOCD_SIZE
  /\ pc \in {"passthru-notzip", "original-structure", "flatten-lossless"} =>
       /\ resp.status = 200
       /\ calls = <<"cache.match", "fetch HEAD", "fetch GET", "cache.put">>
       /\ cache = [present |-> TRUE, resp |-> [resp EXCEPT !.timing = <<>>]]
  /\ pc = "flatten-failed" =>
       /\ ~rebuilt.ok
       /\ resp.status = 302
       /\ resp.location = remoteUrl.href
       /\ resp.body = Buf(<<>>)
       /\ calls = <<"cache.match", "fetch HEAD", "fetch GET">>
       /\ ~cache.present
  /\ cache.present => cache.resp.status = 200

C16_Witness ==
  /\ pc = "flatten-failed"
  /\ rebuilt.err = "entry outside prefix"
  /\ resp.status = 302
  /\ resp.timing = <<"reason;desc=flatten-failed">>
  /\ ~cache.present

\* Where chunk k of the GET response begins in the concatenation.
ChunkStart(k) == TotalLen(res.chunks, k - 1)

\* C17: readLimited returns ok only with the concatenation of all chunks
\* in arrival order, of length <= maxBytes; it returns not-ok only for a
\* content-length above maxBytes or at the first chunk with which the byte
\* count exceeds maxBytes; parseZipTOC never sees more than MAX_ZIP_BYTES
\* bytes.
C17_WholeOrOversize ==
  /\ pc = "reading" =>
       /\ received = TotalLen(res.chunks, Taken)
       /\ received <= Cap
       /\ chunks = SubSeq(res.chunks, 1, Taken)
  /\ (pc = "limited" /\ limited.ok) =>
       /\ Taken = Len(res.chunks)
       /\ BufLen(limited.body) = TotalLen(res.chunks, Len(res.chunks))
       /\ BufLen(limited.body) <= Cap
       /\ \A k \in 1..Len(res.chunks) :
            subarray(limited.body, ChunkStart(k), ChunkStart(k + 1))
              = subarray(res.chunks[k], 0, BufLen(res.chunks[k]))
  /\ (pc = "limited" /\ ~limited.ok) =>
       /\ limited.status = 413
       /\ \/ res.contentLength > Cap
          \/ /\ TotalLen(res.chunks, Taken) > Cap
             /\ res.hasBody => TotalLen(res.chunks, Taken - 1) <= Cap
  /\ (pc = "fetched" \/ ParseTried) => BufLen(bytes) <= Cap

C17_Witness ==
  /\ pc = "limited"
  /\ limited.ok
  /\ Len(res.chunks) = 3
  /\ \A k \in 1..3 : BufLen(res.chunks[k]) > 0
  /\ BufLen(limited.body) > 100

====
